---- MODULE Spec2Model ----
(***************************************************************************)
(* Room-session engine of watchmaker: the HTTP handlers of                 *)
(* server/routes.ts (create room, join, start voting, cast vote) running   *)
(* as interleaved async tasks over the tables of server/storage.ts.        *)
(* A handler in flight is the storage call it awaits (pc), its request     *)
(* (req) and its local variables (loc); handlers have no identity beyond   *)
(* that, so the handlers in flight form a bag.                             *)
(* Every `await` of a handler is a yield point; the code between two       *)
(* awaits runs atomically (single-threaded event loop).  A step of a       *)
(* handler is the effect of the storage call it is waiting for followed    *)
(* by the synchronous code up to the next storage call; synchronous code   *)
(* runs in the step of the storage call it follows.  The arrival of a      *)
(* request is invisible to the other handlers until its first storage call *)
(* takes effect, so the first step of a handler is arrival plus that call. *)
(* Spec is that engine.  Parts of it are also run on their own: GenSpec,   *)
(* the bounded code generator of the copy of the routes in unnamed/part_001;*)
(* AggSpec, calculateResults as a function of its arguments; WsSpec, the   *)
(* WebSocket registry and the fan-out of broadcastToRoom; CodeSpec,        *)
(* generateRoomCode character by character; ScenarioSpec, the handlers of  *)
(* Spec serving the requests of one session one after the other; RaceSpec, *)
(* that session with its vote requests overlapping, under fairness;        *)
(* RetrySpec, a vote sent twice; FaultSpec, Spec with storage calls that   *)
(* fail.                                                                   *)
(***************************************************************************)
EXTENDS Integers, Sequences, FiniteSets, Bags, TLC

\* ---- bounds of the model ----
MaxReqs == 3         \* HTTP requests issued over a behaviour; all may overlap
MaxAggVotes == 3     \* votes handed to one call of calculateResults
MaxCalls == 2        \* calls of calculateResults on the same arguments
RandomGrain == 72    \* Math.random() is taken in steps of 1/RandomGrain

\* ---- input domains ----
Users    == {1, 2}               \* users.id values that exist
Hosts    == {1}                  \* hostId values of create-room requests
Codes    == {"A", "B"}           \* room codes generateRoomCode may draw
CodeOrder == [c \in Codes |-> IF c = "A" THEN 1 ELSE 2]
Catalog  == {<<1>>, <<1, 2>>}    \* candidate lists the catalog may answer
MovieIds == {1, 2}               \* movieId values of vote requests
Scores   == {2}                  \* score values of vote requests
Sockets  == {1, 2, 3}            \* WebSocket connections the server may accept

VARIABLES
  rooms,             \* table rooms: row i has id i
  roomParticipants,  \* table room_participants, in insertion order
  votes,             \* table votes, in insertion order
  handlers,          \* the handlers in flight: a bag of [pc, req, loc]
  res,               \* the HTTP response written by the last step, if any
  sent,              \* broadcastToRoom calls so far, per room code: count per event type, latest type
  nreq,              \* requests issued so far
  agg,               \* calls of calculateResults on their own: arguments, result
  wsConnections,     \* the Map wsConnections: room code -> set of connections
  sockets,           \* per connection: readyState and its handlers' currentRoomCode
  delivered          \* the ws.send calls of the last step's broadcastToRoom, if any

vars == <<rooms, roomParticipants, votes, handlers, res, sent, nreq, agg,
          wsConnections, sockets, delivered>>

\* the state of the HTTP side, and of the WebSocket side
httpvars == <<rooms, roomParticipants, votes, handlers, res, sent, nreq, agg>>
wsvars == <<wsConnections, sockets, delivered>>

\* ---- pure helpers ----
\* a total that counts the votes instead of adding their scores
CountScores(s) == Len(s)

\* an insertion that puts a new entry before the entries of equal score
RECURSIVE InsertByScoreUnstable(_, _)
InsertByScoreUnstable(s, e) ==
  IF s = <<>> THEN <<e>>
  ELSE IF Head(s).totalScore > e.totalScore
       THEN <<Head(s)>> \o InsertByScoreUnstable(Tail(s), e)
       ELSE <<e>> \o s

RECURSIVE SumScores(_)
SumScores(s) == IF s = <<>> THEN 0 ELSE Head(s).score + SumScores(Tail(s))

\* position a new entry takes in a sequence already sorted by descending
\* totalScore: after every entry that does not score lower (stable)
RECURSIVE InsertByScore(_, _)
InsertByScore(s, e) ==
  IF s = <<>> THEN <<e>>
  ELSE IF Head(s).totalScore >= e.totalScore
       THEN <<Head(s)>> \o InsertByScore(Tail(s), e)
       ELSE <<e>> \o s

RECURSIVE SortByScore(_)
SortByScore(s) ==
  IF s = <<>> THEN <<>>
  ELSE InsertByScore(SortByScore(SubSeq(s, 1, Len(s) - 1)), s[Len(s)])

\* the keys of movieScores in insertion order: Map.set of a key that is
\* already present keeps the key's position
RECURSIVE MapKeys(_)
MapKeys(s) ==
  IF s = <<>> THEN <<>>
  ELSE LET front == MapKeys(SubSeq(s, 1, Len(s) - 1)) IN
       IF s[Len(s)] \in {front[i] : i \in 1..Len(front)}
       THEN front
       ELSE Append(front, s[Len(s)])

calculateResults(vs, recommendations) ==
  LET forMovie(m) == SelectSeq(vs, LAMBDA v : v.movieId = m)
      keys == MapKeys(recommendations)
      entry(m) == [movieId    |-> m,
                   totalScore |-> SumScores(forMovie(m)),
                   votes      |-> [j \in 1..Len(forMovie(m)) |->
                                     [userId |-> forMovie(m)[j].userId,
                                      score  |-> forMovie(m)[j].score]]]
  IN SortByScore([i \in 1..Len(keys) |-> entry(keys[i])])

\* ---- storage ----
RoomIdsByCode(code) == {i \in 1..Len(rooms) : rooms[i].code = code}
RoomExistsByCode(code) == RoomIdsByCode(code) # {}
getRoomByCode(code) == CHOOSE i \in RoomIdsByCode(code) : TRUE

getRoomParticipants(roomId) ==
  SelectSeq(roomParticipants, LAMBDA p : p.roomId = roomId)

\* select ... .maybeSingle(): the row when exactly one matches; no row, and
\* also several rows (error PGRST116, which the method does not throw), give
\* undefined
getParticipantByRoomAndUser(roomId, userId) ==
  Cardinality({i \in 1..Len(roomParticipants) :
     roomParticipants[i].roomId = roomId /\ roomParticipants[i].userId = userId}) = 1

\* a read that misses the vote inserted last
getRoomVotesStale(roomId) ==
  LET vs == SelectSeq(votes, LAMBDA v : v.roomId = roomId)
  IN IF vs = <<>> THEN vs ELSE SubSeq(vs, 1, Len(vs) - 1)

getRoomVotes(roomId) == SelectSeq(votes, LAMBDA v : v.roomId = roomId)

\* ---- handlers ----
NoReq == [kind |-> "none", code |-> "", roomId |-> 0, userId |-> 0,
          movieId |-> 0, score |-> 0]
NoLoc == [code |-> "", roomId |-> 0, roomCode |-> "", recommendations |-> <<>>,
          participants |-> 0, allVotes |-> 0, results |-> <<>>]
NoRes == [kind |-> "none", status |-> 0]
NoAgg == [votes |-> <<>>, recommendations |-> <<>>, results |-> <<>>, calls |-> 0]

\* a connection the server has not accepted yet; currentRoomCode "" is null
NewSocket == [readyState |-> "CONNECTING", currentRoomCode |-> ""]
NoDelivery == [code |-> "", type |-> "", to |-> [w \in Sockets |-> 0]]

\* no connection was accepted: wsConnections = new Map()
WsInit ==
  /\ wsConnections = <<>>
  /\ sockets = [w \in Sockets |-> NewSocket]
  /\ delivered = NoDelivery

Handler(label, r, l) == [pc |-> label, req |-> r, loc |-> l]
InFlight == BagToSet(handlers)

EventTypes == {"user-joined", "voting-started", "vote-cast", "voting-completed"}

\* no broadcast yet for a room code: every count is 0 and there is no last
\* event
NoEvents == [t \in EventTypes |-> 0] @@ [t \in {"last"} |-> ""]

\* broadcastToRoom(roomCode, message), recorded per room code: the number of
\* calls per event type, and the type of the latest call
broadcastToRoom(log, roomCode, type) ==
  [log EXCEPT ![roomCode] = [@ EXCEPT ![type] = @ + 1, !["last"] = type]]

\* a request arrives and its handler runs up to the await of `label`
Arrive(label, r, l) ==
  /\ nreq < MaxReqs
  /\ nreq' = nreq + 1
  /\ handlers' = handlers (+) SetToBag({Handler(label, r, l)})
  /\ res' = NoRes
  /\ UNCHANGED <<agg, wsvars>>

\* a request arrives and is answered in its first step
ArriveRespond(r, status) ==
  /\ nreq < MaxReqs
  /\ nreq' = nreq + 1
  /\ res' = [kind |-> r.kind, status |-> status]
  /\ UNCHANGED <<handlers, agg, wsvars>>

\* handler h goes on to await the storage call `label`
Goto(h, label, l) ==
  /\ handlers' = (handlers (-) SetToBag({h})) (+) SetToBag({Handler(label, h.req, l)})
  /\ res' = NoRes
  /\ UNCHANGED <<nreq, agg, wsvars>>

\* res.status(status).json(...): handler h ends
Respond(h, status) ==
  /\ handlers' = handlers (-) SetToBag({h})
  /\ res' = [kind |-> h.req.kind, status |-> status]
  /\ UNCHANGED <<nreq, agg, wsvars>>

Init ==
  /\ rooms = <<>>
  /\ roomParticipants = <<>>
  /\ votes = <<>>
  /\ handlers = EmptyBag
  /\ res = NoRes
  /\ sent = [c \in Codes |-> NoEvents]
  /\ nreq = 0
  /\ agg = NoAgg
  /\ WsInit

\* ---- POST /api/rooms ----
\* do { code = generateRoomCode(); existing = await storage.getRoomByCode(code) }
\* while (existing): generateRoomCode draws a code, the check of a taken code
\* is followed by a fresh draw, the check of a free one by the insert
\* codes are opaque random strings: a draw is a code some room or some create
\* request in flight already holds, or the first code nobody holds yet
Drawn == {rooms[i].code : i \in 1..Len(rooms)} \cup
         {h.loc.code : h \in {g \in InFlight : g.req.kind = "create"}}

generateRoomCode ==
  Drawn \cup {c \in Codes : \A d \in Codes \ Drawn : CodeOrder[c] <= CodeOrder[d]}

CreateRoomArrive ==
  \E h \in Hosts, c \in generateRoomCode :
    /\ Arrive("c_getRoomByCode", [NoReq EXCEPT !.kind = "create", !.userId = h],
              [NoLoc EXCEPT !.code = c])
    /\ UNCHANGED <<rooms, roomParticipants, votes, sent>>

CreateRoomCheck(h) ==
  /\ h.pc = "c_getRoomByCode"
  /\ IF RoomExistsByCode(h.loc.code)
     THEN \E c \in generateRoomCode : Goto(h, "c_getRoomByCode", [h.loc EXCEPT !.code = c])
     ELSE Goto(h, "c_createRoom", h.loc)
  /\ UNCHANGED <<rooms, roomParticipants, votes, sent>>

\* storage.createRoom: insert into rooms; rooms.code is UNIQUE
createRoom(code, hostId) ==
  Append(rooms, [code |-> code, hostId |-> hostId, status |-> "waiting",
                 recommendations |-> <<>>, results |-> <<>>])

\* the insert as it would go without the UNIQUE constraint on rooms.code
CreateRoomInsertUnchecked(h) ==
  /\ h.pc = "c_createRoom"
  /\ rooms' = createRoom(h.loc.code, h.req.userId)
  /\ Goto(h, "c_addParticipant", [h.loc EXCEPT !.roomId = Len(rooms) + 1])
  /\ UNCHANGED <<roomParticipants, votes, sent>>

\* room = await storage.createRoom(roomData); a duplicate code makes the
\* insert throw -> 400
CreateRoomInsert(h) ==
  /\ h.pc = "c_createRoom"
  /\ IF RoomExistsByCode(h.loc.code)
     THEN /\ Respond(h, 400)
          /\ UNCHANGED rooms
     ELSE /\ rooms' = createRoom(h.loc.code, h.req.userId)
          /\ Goto(h, "c_addParticipant", [h.loc EXCEPT !.roomId = Len(rooms) + 1])
  /\ UNCHANGED <<roomParticipants, votes, sent>>

\* storage.addParticipant: insert into room_participants (no unique constraint)
addParticipant(roomId, userId) ==
  Append(roomParticipants, [roomId |-> roomId, userId |-> userId])

\* the handler without the auto-join of the host: res.json(room) right after
\* the insert
CreateRoomSkipHost(h) ==
  /\ h.pc = "c_addParticipant"
  /\ Respond(h, 200)
  /\ UNCHANGED <<rooms, roomParticipants, votes, sent>>

\* await storage.addParticipant({roomId: room.id, userId: hostId}); res.json(room)
CreateRoomAddHost(h) ==
  /\ h.pc = "c_addParticipant"
  /\ roomParticipants' = addParticipant(h.loc.roomId, h.req.userId)
  /\ Respond(h, 200)
  /\ UNCHANGED <<rooms, votes, sent>>

\* ---- POST /api/rooms/:code/join ----
\* room = await storage.getRoomByCode(req.params.code); 404 when missing
JoinArrive ==
  \E c \in Codes, u \in Users :
    LET r == [NoReq EXCEPT !.kind = "join", !.code = c, !.userId = u] IN
    /\ IF RoomExistsByCode(c)
       THEN Arrive("j_getParticipant", r,
                   [NoLoc EXCEPT !.roomId = getRoomByCode(c), !.roomCode = c])
       ELSE ArriveRespond(r, 404)
    /\ UNCHANGED <<rooms, roomParticipants, votes, sent>>

\* existing = await storage.getParticipantByRoomAndUser(room.id, userId);
\* if (existing) return res.json({message: 'Already in room'})
JoinGetParticipant(h) ==
  /\ h.pc = "j_getParticipant"
  /\ IF getParticipantByRoomAndUser(h.loc.roomId, h.req.userId)
     THEN Respond(h, 200)
     ELSE Goto(h, "j_addParticipant", h.loc)
  /\ UNCHANGED <<rooms, roomParticipants, votes, sent>>

\* await storage.addParticipant({roomId: room.id, userId});
\* broadcastToRoom(room.code, {type: 'user-joined'}); res.json(...)
JoinAddParticipant(h) ==
  /\ h.pc = "j_addParticipant"
  /\ roomParticipants' = addParticipant(h.loc.roomId, h.req.userId)
  /\ sent' = broadcastToRoom(sent, h.loc.roomCode, "user-joined")
  /\ Respond(h, 200)
  /\ UNCHANGED <<rooms, votes>>

\* ---- PUT /api/rooms/:code/content-type ----
\* room = await storage.getRoomByCode(req.params.code); 404 when missing
StartVotingArrive ==
  \E c \in Codes :
    LET r == [NoReq EXCEPT !.kind = "start", !.code = c] IN
    /\ IF RoomExistsByCode(c)
       THEN Arrive("s_fetch", r,
                   [NoLoc EXCEPT !.roomId = getRoomByCode(c), !.roomCode = c])
       ELSE ArriveRespond(r, 404)
    /\ UNCHANGED <<rooms, roomParticipants, votes, sent>>

\* response = await fetch(discover); !response.ok throws -> 500;
\* recommendations = data.results.slice(0, 10)
StartVotingFetch(h) ==
  /\ h.pc = "s_fetch"
  /\ \/ Respond(h, 500)
     \/ \E recommendations \in Catalog :
          Goto(h, "s_updateRoomRecommendations",
               [h.loc EXCEPT !.recommendations = recommendations])
  /\ UNCHANGED <<rooms, roomParticipants, votes, sent>>

\* storage.updateRoomRecommendations: update rooms set recommendations where id
updateRoomRecommendations(id, recommendations) ==
  [rooms EXCEPT ![id].recommendations = recommendations]

\* storage.updateRoomStatus: update rooms set status where id
updateRoomStatus(id, status) ==
  [rooms EXCEPT ![id].status = status]

\* storage.updateRoomResults: update rooms set results where id; the column
\* is null, <<>>, until it is written, and <<a>> once the array a is written
updateRoomResults(id, results) ==
  [rooms EXCEPT ![id].results = <<results>>]

\* a handler that broadcasts voting-started as soon as the list is written
StartVotingBroadcastEarly(h) ==
  /\ h.pc = "s_updateRoomRecommendations"
  /\ rooms' = updateRoomRecommendations(h.loc.roomId, h.loc.recommendations)
  /\ sent' = broadcastToRoom(sent, h.loc.roomCode, "voting-started")
  /\ Goto(h, "s_updateRoomStatus", h.loc)
  /\ UNCHANGED <<roomParticipants, votes>>

\* updatedRoom = await storage.updateRoomRecommendations(room.id, recommendations)
StartVotingUpdateRecommendations(h) ==
  /\ h.pc = "s_updateRoomRecommendations"
  /\ rooms' = updateRoomRecommendations(h.loc.roomId, h.loc.recommendations)
  /\ Goto(h, "s_updateRoomStatus", h.loc)
  /\ UNCHANGED <<roomParticipants, votes, sent>>

\* await storage.updateRoomStatus(room.id, 'voting');
\* broadcastToRoom(room.code, {type: 'voting-started'}); res.json(finalRoom)
StartVotingUpdateStatus(h) ==
  /\ h.pc = "s_updateRoomStatus"
  /\ rooms' = updateRoomStatus(h.loc.roomId, "voting")
  /\ sent' = broadcastToRoom(sent, h.loc.roomCode, "voting-started")
  /\ Respond(h, 200)
  /\ UNCHANGED <<roomParticipants, votes>>

\* ---- POST /api/votes ----
\* storage.createVote: insert into votes; the insert fails on the foreign
\* key votes.room_id -> rooms.id, and createVote then returns undefined
\* instead of throwing; no constraint spans (room_id, user_id, movie_id)
createVote(vote) ==
  IF vote.roomId \in 1..Len(rooms) THEN Append(votes, vote) ELSE votes

\* roomId values of vote requests: the ids of the rooms, or an id of no room
\* while there is none
RoomIds == IF rooms = <<>> THEN {1} ELSE 1..Len(rooms)

\* voteData = insertVoteSchema.parse(req.body);
\* vote = await storage.createVote(voteData)
\* (roomCode is read from the body separately, it is not tied to roomId)
CastVoteArrive ==
  \E r \in RoomIds, c \in Codes, u \in Users, m \in MovieIds, sc \in Scores :
    /\ votes' = createVote([roomId |-> r, userId |-> u, movieId |-> m, score |-> sc])
    /\ Arrive("v_getRoomByCode",
              [NoReq EXCEPT !.kind = "vote", !.roomId = r, !.code = c,
                            !.userId = u, !.movieId = m, !.score = sc],
              NoLoc)
    /\ UNCHANGED <<rooms, roomParticipants, sent>>

\* room = await storage.getRoomByCode(req.body.roomCode || '');
\* if (room) {...}; res.json(vote)
CastVoteGetRoom(h) ==
  /\ h.pc = "v_getRoomByCode"
  /\ IF RoomExistsByCode(h.req.code)
     THEN Goto(h, "v_getRoomParticipants",
               [h.loc EXCEPT
                  !.roomId = getRoomByCode(h.req.code),
                  !.roomCode = h.req.code,
                  !.recommendations = rooms[getRoomByCode(h.req.code)].recommendations])
     ELSE Respond(h, 200)
  /\ UNCHANGED <<rooms, roomParticipants, votes, sent>>

\* participants = await storage.getRoomParticipants(room.id)
CastVoteGetParticipants(h) ==
  /\ h.pc = "v_getRoomParticipants"
  /\ Goto(h, "v_getRoomVotes",
          [h.loc EXCEPT !.participants = Len(getRoomParticipants(h.loc.roomId))])
  /\ UNCHANGED <<rooms, roomParticipants, votes, sent>>

\* the expected count of a single voter: the participants are not counted
expectedVotesOneVoter(participants, recommendations) ==
  Len(recommendations)

\* expectedVotes = participants.length * recommendations.length
expectedVotes(participants, recommendations) ==
  participants * Len(recommendations)

\* the completion test with the comparison off by one
isCompleteStrict(allVotes, participants, recommendations) ==
  allVotes > expectedVotes(participants, recommendations)

\* if (allVotes.length >= expectedVotes)
isComplete(allVotes, participants, recommendations) ==
  allVotes >= expectedVotes(participants, recommendations)

\* allVotes = await storage.getRoomVotes(room.id);
\* if (allVotes.length >= expectedVotes) { results = calculateResults(...);
\* await storage.updateRoomResults(...) ... }
\* broadcastToRoom(room.code, {type: 'vote-cast'}); res.json(vote)
CastVoteGetVotes(h) ==
  /\ h.pc = "v_getRoomVotes"
  /\ LET allVotes == getRoomVotes(h.loc.roomId) IN
     IF isComplete(Len(allVotes), h.loc.participants, h.loc.recommendations)
     THEN /\ Goto(h, "v_updateRoomResults",
                  [h.loc EXCEPT
                     !.allVotes = Len(allVotes),
                     !.results = calculateResults(allVotes, h.loc.recommendations)])
          /\ UNCHANGED sent
     ELSE /\ sent' = broadcastToRoom(sent, h.loc.roomCode, "vote-cast")
          /\ Respond(h, 200)
  /\ UNCHANGED <<rooms, roomParticipants, votes>>

\* a handler that sets the status first and never stores the results
CastVoteStatusBeforeResults(h) ==
  /\ h.pc = "v_updateRoomResults"
  /\ rooms' = updateRoomStatus(h.loc.roomId, "completed")
  /\ Goto(h, "v_updateRoomStatus", h.loc)
  /\ UNCHANGED <<roomParticipants, votes, sent>>

\* await storage.updateRoomResults(room.id, results)
CastVoteUpdateResults(h) ==
  /\ h.pc = "v_updateRoomResults"
  /\ rooms' = updateRoomResults(h.loc.roomId, h.loc.results)
  /\ Goto(h, "v_updateRoomStatus", h.loc)
  /\ UNCHANGED <<roomParticipants, votes, sent>>

\* await storage.updateRoomStatus(room.id, 'completed');
\* broadcastToRoom(room.code, {type: 'voting-completed'});
\* broadcastToRoom(room.code, {type: 'vote-cast'}); res.json(vote)
CastVoteUpdateStatus(h) ==
  /\ h.pc = "v_updateRoomStatus"
  /\ rooms' = updateRoomStatus(h.loc.roomId, "completed")
  /\ sent' = broadcastToRoom(
                broadcastToRoom(sent, h.loc.roomCode, "voting-completed"),
                h.loc.roomCode, "vote-cast")
  /\ Respond(h, 200)
  /\ UNCHANGED <<roomParticipants, votes>>

Next ==
  \/ CreateRoomArrive
  \/ JoinArrive
  \/ StartVotingArrive
  \/ CastVoteArrive
  \/ \E h \in InFlight :
       \/ CreateRoomCheck(h)
       \/ CreateRoomInsert(h)
       \/ CreateRoomAddHost(h)
       \/ JoinGetParticipant(h)
       \/ JoinAddParticipant(h)
       \/ StartVotingFetch(h)
       \/ StartVotingUpdateRecommendations(h)
       \/ StartVotingUpdateStatus(h)
       \/ CastVoteGetRoom(h)
       \/ CastVoteGetParticipants(h)
       \/ CastVoteGetVotes(h)
       \/ CastVoteUpdateResults(h)
       \/ CastVoteUpdateStatus(h)

Spec == Init /\ [][Next]_vars

\* ---- the engine with storage calls that fail ----
\* the storage calls that throw the error of the database (storage.ts:
\* getRoomByCode, createRoom, addParticipant, getParticipantByRoomAndUser,
\* getRoomParticipants, getRoomVotes, updateRoomRecommendations,
\* updateRoomStatus, updateRoomResults); createVote returns undefined instead
ThrowingCalls ==
  {"c_getRoomByCode", "c_createRoom", "c_addParticipant",
   "j_getParticipant", "j_addParticipant",
   "s_updateRoomRecommendations", "s_updateRoomStatus",
   "v_getRoomByCode", "v_getRoomParticipants", "v_getRoomVotes",
   "v_updateRoomResults", "v_updateRoomStatus"}

\* the status the catch block of the route answers
CatchStatus(kind) == IF kind = "start" THEN 500 ELSE 400

\* the storage call handler h awaits throws: nothing is written, the catch
\* block of the route answers
StorageThrows(h) ==
  /\ h.pc \in ThrowingCalls
  /\ Respond(h, CatchStatus(h.req.kind))
  /\ UNCHANGED <<rooms, roomParticipants, votes, sent>>

\* vote = await storage.createVote(voteData) when the insert fails:
\* createVote logs the error and returns undefined (storage.ts 99-107), and
\* the handler goes on to storage.getRoomByCode
CastVoteInsertFails ==
  \E r \in RoomIds, c \in Codes, u \in Users, m \in MovieIds, sc \in Scores :
    /\ Arrive("v_getRoomByCode",
              [NoReq EXCEPT !.kind = "vote", !.roomId = r, !.code = c,
                            !.userId = u, !.movieId = m, !.score = sc],
              NoLoc)
    /\ UNCHANGED <<rooms, roomParticipants, votes, sent>>

FaultNext ==
  \/ Next
  \/ CastVoteInsertFails
  \/ \E h \in InFlight : StorageThrows(h)

FaultSpec == Init /\ [][FaultNext]_vars

\* ---- generateRoomCode, the bounded generator (unnamed/part_001) ----
\* The copy of the routes in unnamed/part_001 draws the code in a function of
\* its own: at most MAX_ATTEMPTS draws, each followed by an existence check,
\* and a catch branch around the check.  GenSpec runs create-room requests of
\* that copy over a rooms table that already holds some rooms.
MAX_ATTEMPTS == 10

GenLoc == [code |-> "", attempts |-> 0, checked |-> FALSE]

\* the rooms tables a request may find: waiting rooms with distinct codes
GenRoom(c) == [code |-> c, hostId |-> 1, status |-> "waiting",
               recommendations |-> <<>>, results |-> <<>>]

GenRooms ==
  {<<>>} \cup
  {<<GenRoom(c)>> : c \in Codes} \cup
  {<<GenRoom(p[1]), GenRoom(p[2])>> : p \in {q \in Codes \X Codes : q[1] # q[2]}}

GenInit ==
  /\ rooms \in GenRooms
  /\ roomParticipants = <<>>
  /\ votes = <<>>
  /\ handlers = EmptyBag
  /\ res = NoRes
  /\ sent = [c \in Codes |-> NoEvents]
  /\ nreq = 0
  /\ agg = NoAgg
  /\ WsInit

\* POST /api/rooms: code = await generateRoomCode(); attempts = 0, the first
\* draw, and the await of storage.getRoomByCode(result)
GenerateArrive ==
  \E h \in Hosts, c \in Codes :
    /\ Arrive("g_getRoomByCode", [NoReq EXCEPT !.kind = "generate", !.userId = h],
              [GenLoc EXCEPT !.code = c])
    /\ UNCHANGED <<rooms, roomParticipants, votes, sent>>

\* try { existingRoom = await storage.getRoomByCode(result);
\*       if (!existingRoom) return result }
\* catch (error) { return result }
\* attempts++; the loop draws again while attempts < MAX_ATTEMPTS, and throws
\* after it: the handler answers 500
GenerateCheck(h) ==
  /\ h.pc = "g_getRoomByCode"
  /\ \/ \* the check throws (getRoomByCode rethrows every error but "no rows")
        Goto(h, "g_createRoom", [h.loc EXCEPT !.checked = FALSE])
     \/ /\ ~ RoomExistsByCode(h.loc.code)
        /\ Goto(h, "g_createRoom", [h.loc EXCEPT !.checked = TRUE])
     \/ /\ RoomExistsByCode(h.loc.code)
        /\ IF h.loc.attempts + 1 < MAX_ATTEMPTS
           THEN \E c \in Codes :
                  Goto(h, "g_getRoomByCode",
                       [h.loc EXCEPT !.code = c, !.attempts = @ + 1])
           ELSE Respond(h, 500)
  /\ UNCHANGED <<rooms, roomParticipants, votes, sent>>

\* room = await storage.createRoom(parsedRoomData); res.status(201).json(room);
\* a duplicate code makes the insert throw -> 400
GenerateCreateRoom(h) ==
  /\ h.pc = "g_createRoom"
  /\ IF RoomExistsByCode(h.loc.code)
     THEN /\ Respond(h, 400)
          /\ UNCHANGED rooms
     ELSE /\ rooms' = createRoom(h.loc.code, h.req.userId)
          /\ Respond(h, 201)
  /\ UNCHANGED <<roomParticipants, votes, sent>>

GenNext ==
  \/ GenerateArrive
  \/ \E h \in InFlight :
       \/ GenerateCheck(h)
       \/ GenerateCreateRoom(h)

GenSpec == GenInit /\ [][GenNext]_vars

\* ---- calculateResults on its own ----
\* AggSpec calls calculateResults with votes and a candidate list drawn from
\* the domains below: scores of either sign, a movie outside some lists,
\* lists in either order, a list naming a movie twice
AggScores   == {-1, 2}
AggMovieIds == {1, 2, 3}
AggCatalog  == {<<>>, <<1>>, <<1, 2>>, <<2, 1>>, <<1, 1>>, <<1, 2, 3>>}
AggVoteRows == [roomId : {1}, userId : Users, movieId : AggMovieIds, score : AggScores]
AggVotes    == UNION {[1..k -> AggVoteRows] : k \in 0..MaxAggVotes}

AggInit ==
  /\ rooms = <<>>
  /\ roomParticipants = <<>>
  /\ votes = <<>>
  /\ handlers = EmptyBag
  /\ res = NoRes
  /\ sent = [c \in Codes |-> NoEvents]
  /\ nreq = 0
  /\ agg \in {[NoAgg EXCEPT !.votes = v, !.recommendations = r] :
                v \in AggVotes, r \in AggCatalog}
  /\ WsInit

\* a call that sorts the candidate list it was handed in place
AggregateInPlace ==
  /\ agg.calls < MaxCalls
  /\ LET out == calculateResults(agg.votes, agg.recommendations) IN
     agg' = [agg EXCEPT !.results = out,
                        !.recommendations = [i \in 1..Len(out) |-> out[i].movieId],
                        !.calls = @ + 1]
  /\ UNCHANGED <<rooms, roomParticipants, votes, handlers, res, sent, nreq, wsvars>>

\* results = calculateResults(votes, recommendations): the function builds
\* its Map, its entries and the array it sorts afresh; it writes neither to
\* its arguments nor to anything else
Aggregate ==
  /\ agg.calls < MaxCalls
  /\ agg' = [agg EXCEPT !.results = calculateResults(agg.votes, agg.recommendations),
                        !.calls = @ + 1]
  /\ UNCHANGED <<rooms, roomParticipants, votes, handlers, res, sent, nreq, wsvars>>

AggNext == Aggregate

AggSpec == AggInit /\ [][AggNext]_vars

\* ---- the WebSocket registry ----
\* The handlers of the WebSocket server are synchronous: each runs as one
\* step.  WsSpec runs them together with the broadcastToRoom calls the HTTP
\* handlers make, over connections that open, send messages and close.
\* A connection leaves readyState OPEN before its 'close' event is emitted.
\* the connections of the room whatever their readyState
ReceiversAnyState(conns, roomCode) ==
  IF roomCode \in DOMAIN conns THEN conns[roomCode] ELSE {}

\* the connections of any room that are open
ReceiversAnyRoom(conns, roomCode) ==
  {w \in Sockets : /\ \E c \in DOMAIN conns : w \in conns[c]
                   /\ sockets[w].readyState = "OPEN"}

\* connections = wsConnections.get(roomCode); if (connections)
\* connections.forEach(ws => { if (ws.readyState === WebSocket.OPEN) ws.send(..) })
Receivers(conns, roomCode) ==
  IF roomCode \in DOMAIN conns
  THEN {w \in conns[roomCode] : sockets[w].readyState = "OPEN"}
  ELSE {}

\* the ws.send calls of broadcastToRoom(roomCode, {type}), per connection
wsBroadcast(conns, roomCode, type) ==
  [code |-> roomCode, type |-> type,
   to |-> [w \in Sockets |-> IF w \in Receivers(conns, roomCode) THEN 1 ELSE 0]]

\* wss.on('connection', (ws, req) => { let currentRoomCode = null; ... })
WsConnection(w) ==
  /\ sockets[w].readyState = "CONNECTING"
  /\ sockets' = [sockets EXCEPT ![w] = [readyState |-> "OPEN", currentRoomCode |-> ""]]
  /\ delivered' = NoDelivery
  /\ UNCHANGED <<wsConnections, httpvars>>

\* wsConnections with ws added to the set of roomCode (a new Set when the
\* Map has none)
wsAdd(conns, roomCode, w) ==
  [c \in DOMAIN conns \cup {roomCode} |->
     IF c = roomCode
     THEN (IF c \in DOMAIN conns THEN conns[c] ELSE {}) \cup {w}
     ELSE conns[c]]

\* message {type: 'join-room', roomCode}: currentRoomCode = message.roomCode;
\* wsConnections.get(currentRoomCode).add(ws); broadcastToRoom(currentRoomCode,
\* {type: 'user-joined'})
WsMessageJoinRoom(w) ==
  \E roomCode \in Codes :
    /\ sockets[w].readyState = "OPEN"
    /\ sockets' = [sockets EXCEPT ![w].currentRoomCode = roomCode]
    /\ wsConnections' = wsAdd(wsConnections, roomCode, w)
    /\ delivered' = wsBroadcast(wsAdd(wsConnections, roomCode, w), roomCode, "user-joined")
    /\ UNCHANGED httpvars

\* message {type: 'vote-cast'}: if (currentRoomCode)
\* broadcastToRoom(currentRoomCode, {type: 'vote-update'})
WsMessageVoteCast(w) ==
  /\ sockets[w].readyState = "OPEN"
  /\ delivered' = IF sockets[w].currentRoomCode # ""
                  THEN wsBroadcast(wsConnections, sockets[w].currentRoomCode, "vote-update")
                  ELSE NoDelivery
  /\ UNCHANGED <<wsConnections, sockets, httpvars>>

\* the connection goes down: readyState is no longer OPEN, 'close' is not
\* emitted yet
WsDisconnect(w) ==
  /\ sockets[w].readyState = "OPEN"
  /\ sockets' = [sockets EXCEPT ![w].readyState = "CLOSING"]
  /\ delivered' = NoDelivery
  /\ UNCHANGED <<wsConnections, httpvars>>

\* a delete that keeps the entry of a set left empty
wsDeleteKeepEntry(conns, roomCode, w) ==
  IF roomCode \notin DOMAIN conns THEN conns
  ELSE [conns EXCEPT ![roomCode] = @ \ {w}]

\* wsConnections with ws deleted from the set of roomCode, and the entry
\* deleted when the set is left empty
wsDelete(conns, roomCode, w) ==
  IF roomCode \notin DOMAIN conns THEN conns
  ELSE IF conns[roomCode] \ {w} = {}
       THEN [c \in DOMAIN conns \ {roomCode} |-> conns[c]]
       ELSE [conns EXCEPT ![roomCode] = @ \ {w}]

\* a close handler that also tells the room that the connection left
WsCloseNotifying(w) ==
  /\ sockets[w].readyState = "CLOSING"
  /\ sockets' = [sockets EXCEPT ![w].readyState = "CLOSED"]
  /\ wsConnections' = IF sockets[w].currentRoomCode # ""
                      THEN wsDelete(wsConnections, sockets[w].currentRoomCode, w)
                      ELSE wsConnections
  /\ delivered' = IF sockets[w].currentRoomCode # ""
                  THEN wsBroadcast(wsConnections', sockets[w].currentRoomCode, "user-joined")
                  ELSE NoDelivery
  /\ UNCHANGED httpvars

\* ws.on('close'): if (currentRoomCode) { connections.delete(ws);
\* if (connections.size === 0) wsConnections.delete(currentRoomCode) }
WsClose(w) ==
  /\ sockets[w].readyState = "CLOSING"
  /\ sockets' = [sockets EXCEPT ![w].readyState = "CLOSED"]
  /\ wsConnections' = IF sockets[w].currentRoomCode # ""
                      THEN wsDelete(wsConnections, sockets[w].currentRoomCode, w)
                      ELSE wsConnections
  /\ delivered' = NoDelivery
  /\ UNCHANGED httpvars

\* a broadcast that drops the connections it finds closed from the set
HttpBroadcastPruning ==
  \E roomCode \in Codes, type \in EventTypes :
    /\ delivered' = wsBroadcast(wsConnections, roomCode, type)
    /\ wsConnections' =
         [c \in DOMAIN wsConnections |->
            IF c = roomCode THEN Receivers(wsConnections, roomCode)
            ELSE wsConnections[c]]
    /\ UNCHANGED <<sockets, httpvars>>

\* the route whose handler broadcasts events of the type
RouteOf(type) ==
  CASE type = "user-joined" -> "join"
    [] type = "voting-started" -> "start"
    [] OTHER -> "vote"

\* res.json(...) after the broadcast; after voting-completed the handler
\* goes on to the vote-cast broadcast and has not answered yet
Answer(type) ==
  IF type = "voting-completed" THEN NoRes
  ELSE [kind |-> RouteOf(type), status |-> 200]

\* a broadcast whose ws.send raises on a member of the room that is not
\* open: nothing is sent and the catch block of the route answers 400
HttpBroadcastThrowing ==
  \E roomCode \in Codes, type \in EventTypes :
    LET raised == ReceiversAnyState(wsConnections, roomCode)
                    # Receivers(wsConnections, roomCode)
    IN /\ delivered' = IF raised
                       THEN [wsBroadcast(wsConnections, roomCode, type)
                               EXCEPT !.to = [w \in Sockets |-> 0]]
                       ELSE wsBroadcast(wsConnections, roomCode, type)
       /\ res' = IF raised THEN [kind |-> RouteOf(type), status |-> 400]
                 ELSE Answer(type)
       /\ UNCHANGED <<wsConnections, sockets, rooms, roomParticipants, votes,
                      handlers, sent, nreq, agg>>

\* broadcastToRoom(room.code, {type}) as called by an HTTP handler, and the
\* res.json(...) that follows it
HttpBroadcast ==
  \E roomCode \in Codes, type \in EventTypes :
    /\ delivered' = wsBroadcast(wsConnections, roomCode, type)
    /\ res' = Answer(type)
    /\ UNCHANGED <<wsConnections, sockets, rooms, roomParticipants, votes,
                   handlers, sent, nreq, agg>>

WsNext ==
  \/ HttpBroadcast
  \/ \E w \in Sockets :
       \/ WsConnection(w)
       \/ WsMessageJoinRoom(w)
       \/ WsMessageVoteCast(w)
       \/ WsDisconnect(w)
       \/ WsClose(w)

WsSpec == Init /\ [][WsNext]_vars

\* ---- generateRoomCode, character by character ----
\* const chars = 'ABCDEFGHIJKLMNOPQRSTUVWXYZ0123456789'; strings are sequences
\* of one-character strings
chars ==
  <<"A", "B", "C", "D", "E", "F", "G", "H", "I", "J", "K", "L", "M",
    "N", "O", "P", "Q", "R", "S", "T", "U", "V", "W", "X", "Y", "Z",
    "0", "1", "2", "3", "4", "5", "6", "7", "8", "9">>

\* Math.random() is k / RandomGrain for a k in 0..RandomGrain-1: at least 0,
\* below 1; the draws checked are the least, the middle and the greatest
Randoms == {0, RandomGrain \div 2, RandomGrain - 1}

\* Math.round(k / RandomGrain * chars.length)
RoundedIndex(k) == (2 * k * Len(chars) + RandomGrain) \div (2 * RandomGrain)

\* Math.floor(Math.random() * chars.length)
RandomIndex(k) == (k * Len(chars)) \div RandomGrain

\* s.charAt(n): the character at the 0-based position n, '' outside the string
charAt(s, n) == IF n \in 0..(Len(s) - 1) THEN <<s[n + 1]>> ELSE <<>>

\* the locals of generateRoomCode: result and the loop counter i
CodeLoc == [c \in DOMAIN NoLoc \cup {"i"} |->
              IF c = "i" THEN 0 ELSE IF c = "code" THEN <<>> ELSE NoLoc[c]]

\* empty storage, and one create request to come
CodeInit ==
  /\ rooms = <<>>
  /\ roomParticipants = <<>>
  /\ votes = <<>>
  /\ handlers = EmptyBag
  /\ res = NoRes
  /\ sent = [c \in Codes |-> NoEvents]
  /\ nreq = MaxReqs - 1
  /\ agg = NoAgg
  /\ WsInit

\* POST /api/rooms: generateRoomCode() is entered, let result = ''
CodeArrive ==
  \E h \in Hosts :
    /\ Arrive("k_draw", [NoReq EXCEPT !.kind = "create", !.userId = h], CodeLoc)
    /\ UNCHANGED <<rooms, roomParticipants, votes, sent>>

\* for (let i = 0; i < 8; i++)
\*   result += chars.charAt(Math.floor(Math.random() * chars.length));
\* return result; existing = await storage.getRoomByCode(code)
CodeDraw(h) ==
  /\ h.pc = "k_draw"
  /\ IF h.loc.i < 8
     THEN \E k \in Randoms :
            Goto(h, "k_draw",
                 [h.loc EXCEPT !.code = @ \o charAt(chars, RandomIndex(k)),
                               !.i = @ + 1])
     ELSE Goto(h, "c_getRoomByCode", [NoLoc EXCEPT !.code = h.loc.code])
  /\ UNCHANGED <<rooms, roomParticipants, votes, sent>>

CodeNext ==
  \/ CodeArrive
  \/ \E h \in InFlight :
       \/ CodeDraw(h)
       \/ CreateRoomCheck(h)
       \/ CreateRoomInsert(h)
       \/ CreateRoomAddHost(h)

CodeSpec == CodeInit /\ [][CodeNext]_vars

\* ---- the requests of one session, one after the other ----
\* the host creates a room, the second user joins it, the host starts voting,
\* and each of the two users votes once on each of the two recommendations;
\* a request is sent when the one before it has been answered
Scenario == <<"create", "join", "start", "vote", "vote", "vote", "vote">>

\* the session's requests are the last Len(Scenario) requests the server takes
ScenarioInit ==
  /\ rooms = <<>>
  /\ roomParticipants = <<>>
  /\ votes = <<>>
  /\ handlers = EmptyBag
  /\ res = NoRes
  /\ sent = [c \in Codes |-> NoEvents]
  /\ nreq = MaxReqs - Len(Scenario)
  /\ agg = NoAgg
  /\ WsInit

\* the number of requests of the session sent so far
ScenarioStep == nreq - (MaxReqs - Len(Scenario))

\* r is the request the session sends next
Scripted(r) ==
  /\ ScenarioStep < Len(Scenario)
  /\ r.kind = Scenario[ScenarioStep + 1]
  /\ r.kind = "create" => r.userId = 1
  /\ r.kind # "create" => r.code = rooms[1].code
  /\ r.kind = "join" => r.userId = 2
  /\ r.kind = "vote" =>
        /\ r.roomId = 1
        /\ ~ \E i \in 1..Len(votes) :
               votes[i].userId = r.userId /\ votes[i].movieId = r.movieId

\* a step of the server in which the clients follow the session: a request
\* arrives only when no request is in flight and is the next one of the
\* session, and the discover call of start-voting answers with two movies
ScenarioNext ==
  /\ Next
  /\ nreq' # nreq =>
        /\ handlers = EmptyBag
        /\ handlers' # EmptyBag
        /\ \A h \in BagToSet(handlers') : Scripted(h.req)
  /\ \A h \in InFlight : h.pc = "s_fetch" =>
        /\ handlers' # EmptyBag
        /\ \A g \in BagToSet(handlers') : g.loc.recommendations = <<1, 2>>

ScenarioSpec == ScenarioInit /\ [][ScenarioNext]_vars

\* ---- the session with its vote requests overlapping ----
\* the create, join and start requests are sent one after the other; the four
\* vote requests are sent once voting has started, without waiting for the
\* answers of the earlier votes
RaceNext ==
  /\ Next
  /\ nreq' # nreq =>
        /\ BagToSet(handlers' (-) handlers) # {}
        /\ \A h \in BagToSet(handlers' (-) handlers), g \in InFlight :
             h.req.kind = "vote" /\ g.req.kind = "vote"
        /\ \A h \in BagToSet(handlers' (-) handlers) : Scripted(h.req)
  /\ \A h \in InFlight : h.pc = "s_fetch" =>
        /\ handlers' # EmptyBag
        /\ \A g \in BagToSet(handlers') : g.loc.recommendations = <<1, 2>>

\* every handler in flight goes on (the event loop serves every storage
\* answer), and the clients send all the requests of the session
RaceSpec == ScenarioInit /\ [][RaceNext]_vars /\ WF_vars(RaceNext)

\* ---- a vote sent twice ----
\* the host creates a room and starts voting, then two vote requests for the
\* room are sent, the second without waiting for the answer of the first;
\* voters, movies and scores are free, so the second may repeat the first
Retry == <<"create", "start", "vote", "vote">>

RetryInit ==
  /\ rooms = <<>>
  /\ roomParticipants = <<>>
  /\ votes = <<>>
  /\ handlers = EmptyBag
  /\ res = NoRes
  /\ sent = [c \in Codes |-> NoEvents]
  /\ nreq = MaxReqs - Len(Retry)
  /\ agg = NoAgg
  /\ WsInit

\* the number of requests sent so far
RetryStep == nreq - (MaxReqs - Len(Retry))

RetryNext ==
  /\ Next
  /\ nreq' # nreq =>
        /\ RetryStep < Len(Retry)
        /\ BagToSet(handlers' (-) handlers) # {}
        /\ \A h \in BagToSet(handlers' (-) handlers), g \in InFlight :
             h.req.kind = "vote" /\ g.req.kind = "vote"
        /\ \A h \in BagToSet(handlers' (-) handlers) :
             /\ h.req.kind = Retry[RetryStep + 1]
             /\ h.req.kind # "create" => h.req.code = rooms[1].code
             /\ h.req.kind = "vote" => h.req.roomId = 1

RetrySpec == RetryInit /\ [][RetryNext]_vars

\* ---- vocabulary of the properties ----
\* the step removes one copy of handler h: h is the handler that ran
Ran(h) == CopiesIn(h, handlers') = CopiesIn(h, handlers) - 1

\* the handlers the step added: the new state of the handler that ran, or
\* the handler of the request that arrived
Entered == BagToSet(handlers' (-) handlers)

\* the side effects a request can have
Effects == <<rooms, roomParticipants, votes, sent>>

VotesOfRoom(roomId) == Cardinality({i \in 1..Len(votes) : votes[i].roomId = roomId})

\* handlers of room roomId that found voting complete and have not broadcast
\* voting-completed yet
Completing(roomId) ==
  LET cs == {h \in InFlight : /\ h.pc \in {"v_updateRoomResults", "v_updateRoomStatus"}
                              /\ h.loc.roomId = roomId}
  IN BagCardinality([h \in cs |-> handlers[h]])

\* C1: voting-completed is broadcast at most once per room (the room's
\* code is unique, so per room code)
C1_CompletedBroadcastOnce ==
  \A c \in Codes : sent[c]["voting-completed"] <= 1

\* C2: the results of a room are written once: no handler writes results
\* (or the status completed) to a room that another completion attempt has
\* already written results to
C2_ResultsSetOnce ==
  [][\A h \in InFlight :
       h.pc = "v_updateRoomResults" /\ Ran(h) =>
         /\ rooms[h.loc.roomId].status # "completed"
         /\ ~ \E g \in InFlight : g.pc = "v_updateRoomStatus"
                                  /\ g.loc.roomId = h.loc.roomId]_vars

\* C3: completion check, transition and broadcast are one critical section
\* per room: at most one handler of a room is past its completion check and
\* before its completion broadcast
C3_CompletionCriticalSection ==
  \A i \in 1..Len(rooms) : Completing(i) <= 1

\* C4: a room's status only changes waiting -> voting and voting -> completed
C4_MonotonicLifecycle ==
  [][\A i \in 1..Len(rooms) :
       \/ rooms'[i].status = rooms[i].status
       \/ rooms[i].status = "waiting" /\ rooms'[i].status = "voting"
       \/ rooms[i].status = "voting" /\ rooms'[i].status = "completed"]_vars

\* C5: a step of a start-voting handler whose room is not waiting changes
\* neither the room nor any other table, broadcasts nothing, and does not
\* answer success
C5_StartOnlyFromWaiting ==
  [][\A h \in InFlight :
       /\ h.req.kind = "start"
       /\ Ran(h)
       /\ rooms[h.loc.roomId].status # "waiting"
       => /\ UNCHANGED Effects
          /\ res'.status # 200]_vars

\* C6: no step moves a room from waiting to completed, and no
\* voting-completed is broadcast for a room that has no candidate list
C6_CompleteOnlyFromVoting ==
  [][/\ \A i \in 1..Len(rooms) :
          ~ (rooms[i].status = "waiting" /\ rooms'[i].status = "completed")
     /\ \A i \in 1..Len(rooms) :
          rooms[i].recommendations = <<>> =>
            sent'[rooms[i].code]["voting-completed"] = sent[rooms[i].code]["voting-completed"]]_vars

\* C7: once a room has a candidate list, no step changes it
C7_CandidatesImmutable ==
  [][\A i \in 1..Len(rooms) :
       rooms[i].recommendations # <<>> =>
         rooms'[i].recommendations = rooms[i].recommendations]_vars

\* C8: a cast-vote request records its vote only when its room code names
\* a room in status voting; otherwise it is answered with a failure and
\* nothing is broadcast
C8_VoteValidatesRoom ==
  [][/\ \A g \in Entered :
          g.pc = "v_getRoomByCode" /\ votes' # votes =>
            /\ RoomExistsByCode(g.req.code)
            /\ rooms[getRoomByCode(g.req.code)].status = "voting"
     /\ \A h \in InFlight :
          h.req.kind = "vote" /\ Ran(h) /\ res'.status # 0 =>
            IF ~ RoomExistsByCode(h.req.code)
            THEN res'.status = 404 /\ sent' = sent
            ELSE rooms[getRoomByCode(h.req.code)].status # "voting" =>
                   res'.status >= 400 /\ sent' = sent]_vars

\* C9: the ledger holds at most one vote per (roomId, userId, movieId)
C9_OneVotePerTriple ==
  \A i, j \in 1..Len(votes) :
    /\ votes[i].roomId = votes[j].roomId
    /\ votes[i].userId = votes[j].userId
    /\ votes[i].movieId = votes[j].movieId
    => i = j

\* C10: a cast-vote handler that has read the votes of its room goes on to
\* the completion transition exactly when count(votes) >= count(participants)
\* * count(candidates) for the values it read, and the transition it then
\* performs stores results and sets the status completed
C10_CompletesIffThreshold ==
  [][\A h \in InFlight :
       /\ h.pc = "v_getRoomVotes" /\ Ran(h) =>
            ( VotesOfRoom(h.loc.roomId) >= h.loc.participants * Len(h.loc.recommendations)
              <=> \E g \in Entered : g.pc = "v_updateRoomResults" /\ g.req = h.req )
       /\ h.pc = "v_updateRoomResults" /\ Ran(h) =>
            /\ h.loc.allVotes >= h.loc.participants * Len(h.loc.recommendations)
            /\ rooms'[h.loc.roomId].results = <<h.loc.results>>
       /\ h.pc = "v_updateRoomStatus" /\ Ran(h) =>
            /\ rooms'[h.loc.roomId].status = "completed"
            /\ sent'[h.loc.roomCode]["voting-completed"] =
                 sent[h.loc.roomCode]["voting-completed"] + 1]_vars

\* a handler found a non-trivial threshold met (participants and candidates
\* present) and is about to store the results
C10_Witness ==
  \E h \in InFlight :
    /\ h.pc = "v_updateRoomResults"
    /\ h.loc.participants * Len(h.loc.recommendations) > 0
    /\ h.loc.allVotes >= h.loc.participants * Len(h.loc.recommendations)

\* user userId has a vote for movie movieId recorded in room roomId
HasVoted(roomId, userId, movieId) ==
  \E j \in 1..Len(votes) : /\ votes[j].roomId = roomId
                           /\ votes[j].userId = userId
                           /\ votes[j].movieId = movieId

\* C11: in a completed room every participant has a recorded vote for every
\* candidate of the room's candidate list
C11_CompletedMeansAllVoted ==
  \A i \in 1..Len(rooms) :
    rooms[i].status = "completed" =>
      \A p \in 1..Len(roomParticipants), k \in 1..Len(rooms[i].recommendations) :
        roomParticipants[p].roomId = i =>
          HasVoted(i, roomParticipants[p].userId, rooms[i].recommendations[k])

\* C12: no two rooms share a code, whatever the interleaving of the
\* create-room requests
C12_CodesUnique ==
  \A i, j \in 1..Len(rooms) : rooms[i].code = rooms[j].code => i = j

\* two create requests drew the same code and both passed the existence
\* check; one room was persisted and the other insert was refused
C12_Witness ==
  /\ res = [kind |-> "create", status |-> 400]
  /\ rooms # <<>>

\* C13: code generation is bounded: a draw is checked only while fewer than
\* MAX_ATTEMPTS checks were made, a code is returned only after its
\* existence check reported that no room has it, and the request fails for
\* want of a code only when the last attempt collides, creating no room
C13_GenerationBounded ==
  [][\A h \in InFlight :
       h.pc = "g_getRoomByCode" /\ Ran(h) =>
         /\ h.loc.attempts < MAX_ATTEMPTS
         /\ \A g \in Entered :
              g.pc = "g_createRoom" =>
                g.loc.checked /\ ~ RoomExistsByCode(g.loc.code)
         /\ res'.status = 500 =>
              /\ h.loc.attempts = MAX_ATTEMPTS - 1
              /\ RoomExistsByCode(h.loc.code)
              /\ rooms' = rooms]_vars

\* C14: no room is created with a code whose existence check did not
\* confirm it free: when the check raised an error the code is not used
C14_FailClosed ==
  [][\A h \in InFlight :
       h.pc = "g_createRoom" /\ Ran(h) /\ rooms' # rooms => h.loc.checked]_vars

\* no other request has addressed room code `code` so far: none is in
\* flight for it and none has broadcast to it
Undisturbed(code) ==
  /\ \A t \in EventTypes : sent[code][t] = 0
  /\ ~ \E g \in InFlight : g.req.code = code

C16_ParticipantsUnique ==
  \A p, q \in 1..Len(roomParticipants) :
    /\ roomParticipants[p].roomId = roomParticipants[q].roomId
    /\ roomParticipants[p].userId = roomParticipants[q].userId
    => p = q

\* the votes of vs for movie m, by position
VotesFor(vs, m) == {j \in 1..Len(vs) : vs[j].movieId = m}

\* the k-th position of the set of positions J, in ascending order
Nth(J, k) == CHOOSE j \in J : Cardinality({i \in J : i <= j}) = k

RECURSIVE ScoreSum(_, _)
ScoreSum(vs, J) ==
  IF J = {} THEN 0
  ELSE LET j == CHOOSE x \in J : TRUE IN vs[j].score + ScoreSum(vs, J \ {j})

CandidateIds(recommendations) ==
  {recommendations[i] : i \in 1..Len(recommendations)}

\* the worked example: candidates [1, 2, 3], votes user1: 1 = 2, user1: 2 = -1,
\* user2: 1 = 1, user2: 2 = 1, user2: 3 = -2
ExampleVotes ==
  <<[roomId |-> 1, userId |-> 1, movieId |-> 1, score |-> 2],
    [roomId |-> 1, userId |-> 1, movieId |-> 2, score |-> -1],
    [roomId |-> 1, userId |-> 2, movieId |-> 1, score |-> 1],
    [roomId |-> 1, userId |-> 2, movieId |-> 2, score |-> 1],
    [roomId |-> 1, userId |-> 2, movieId |-> 3, score |-> -2]>>

ExampleResults ==
  <<[movieId |-> 1, totalScore |-> 3,
     votes |-> <<[userId |-> 1, score |-> 2], [userId |-> 2, score |-> 1]>>],
    [movieId |-> 2, totalScore |-> 0,
     votes |-> <<[userId |-> 1, score |-> -1], [userId |-> 2, score |-> 1]>>],
    [movieId |-> 3, totalScore |-> -2,
     votes |-> <<[userId |-> 2, score |-> -2]>>]>>

\* C17: the result of calculateResults has exactly one entry per candidate
\* of the list; an entry's total is the sum of the scores of the votes for
\* that candidate and its detail list holds {userId, score} of exactly those
\* votes; votes for a movie outside the list appear nowhere; and the worked
\* example gives 1 = 3, 2 = 0, 3 = -2
C17_AggregationCorrect ==
  /\ calculateResults(ExampleVotes, <<1, 2, 3>>) = ExampleResults
  /\ agg.calls > 0 =>
       LET out == agg.results
           ids == CandidateIds(agg.recommendations)
       IN /\ {out[i].movieId : i \in 1..Len(out)} = ids
          /\ Len(out) = Cardinality(ids)
          /\ \A i \in 1..Len(out) :
               LET J == VotesFor(agg.votes, out[i].movieId) IN
               /\ out[i].totalScore = ScoreSum(agg.votes, J)
               /\ Len(out[i].votes) = Cardinality(J)
               /\ \A k \in 1..Len(out[i].votes) :
                    out[i].votes[k] = [userId |-> agg.votes[Nth(J, k)].userId,
                                       score  |-> agg.votes[Nth(J, k)].score]

\* calculateResults has run on votes of which one names a movie outside the
\* candidate list and two name the same candidate
C17_Witness ==
  /\ agg.calls > 0
  /\ \E j \in 1..Len(agg.votes) :
       agg.votes[j].movieId \notin CandidateIds(agg.recommendations)
  /\ \E i \in 1..Len(agg.results) : Len(agg.results[i].votes) = 2

\* the position of candidate m in the candidate list (its first, when the
\* list names it twice)
PositionOf(recommendations, m) ==
  CHOOSE i \in 1..Len(recommendations) :
    /\ recommendations[i] = m
    /\ \A j \in 1..(i - 1) : recommendations[j] # m

\* C18: the result is sorted by non-increasing total score, and entries of
\* equal total score are in the order of the candidate list
C18_SortedStable ==
  agg.calls > 0 =>
    \A i, j \in 1..Len(agg.results) :
      i < j =>
        /\ agg.results[i].totalScore >= agg.results[j].totalScore
        /\ agg.results[i].totalScore = agg.results[j].totalScore =>
             PositionOf(agg.recommendations, agg.results[i].movieId)
               < PositionOf(agg.recommendations, agg.results[j].movieId)

\* calculateResults has run on three candidates of which the last scores
\* highest and the first two tie with votes of their own
C18_Witness ==
  /\ agg.calls > 0
  /\ Len(agg.results) = 3
  /\ agg.results[1].movieId = 3
  /\ agg.results[2].totalScore = agg.results[3].totalScore
  /\ agg.results[2].votes # <<>>

Registered(w, roomCode) ==
  roomCode \in DOMAIN wsConnections /\ w \in wsConnections[roomCode]

\* C20: a broadcast to room code R sends the event exactly once to every
\* open connection registered to R and to no other connection
C20_FanOutComplete ==
  delivered.code # "" =>
    \A w \in Sockets :
      delivered.to[w] =
        IF Registered(w, delivered.code) /\ sockets[w].readyState = "OPEN"
        THEN 1 ELSE 0

\* a broadcast to room A reached two open connections of A and did not
\* reach an open connection registered under B only
C20_Witness ==
  /\ delivered.code = "A"
  /\ Cardinality({w \in Sockets : delivered.to[w] = 1}) = 2
  /\ \E w \in Sockets : /\ Registered(w, "B")
                        /\ ~ Registered(w, "A")
                        /\ sockets[w].readyState = "OPEN"
                        /\ delivered.to[w] = 0

\* connection w is in the connection set of roomCode in registry conns
RegisteredIn(conns, w, roomCode) ==
  roomCode \in DOMAIN conns /\ w \in conns[roomCode]

\* the room codes whose connection set holds connection w
RoomsOf(w) == {c \in DOMAIN wsConnections : w \in wsConnections[c]}

\* C21: a connection is a member of the connection set of at most one room
\* code
C21_OneRoomPerConnection ==
  \A w \in Sockets : Cardinality(RoomsOf(w)) <= 1

\* C22: the registry holds no room code whose connection set is empty
C22_NoEmptyEntry ==
  \A c \in DOMAIN wsConnections : wsConnections[c] # {}

\* the last connection of a room has closed and the room's entry is gone
\* while another room still has one
C22_Witness ==
  /\ \E w \in Sockets : /\ sockets[w].readyState = "CLOSED"
                        /\ sockets[w].currentRoomCode = "A"
  /\ "A" \notin DOMAIN wsConnections
  /\ "B" \in DOMAIN wsConnections

\* C23: a connection whose close handler has run is a member of no room's
\* connection set
C23_RemovedOnClose ==
  \A w \in Sockets : sockets[w].readyState = "CLOSED" => RoomsOf(w) = {}

\* the step is the close handler of connection w
ClosesIn(w) ==
  sockets[w].readyState = "CLOSING" /\ sockets'[w].readyState = "CLOSED"

\* the step is a join-room message of connection w for roomCode
JoinsIn(w, roomCode) ==
  /\ sockets[w].readyState = "OPEN"
  /\ sockets'[w] = [sockets[w] EXCEPT !.currentRoomCode = roomCode]
  /\ delivered'.type = "user-joined"
  /\ delivered'.code = roomCode

\* C24: the registry changes only in a join-room step, which adds the
\* joining connection to the named room, and in a connection's close step,
\* which removes that connection from one room; a broadcast sends to open
\* connections only and leaves the closed members of the room in its set
C24_BroadcastKeepsRegistry ==
  [][/\ wsConnections' # wsConnections =>
          \E w \in Sockets :
            \/ /\ ClosesIn(w)
               /\ \A v \in Sockets, c \in Codes :
                    (v # w /\ Registered(v, c)) => Registered(v, c)'
            \/ \E roomCode \in Codes :
                 /\ JoinsIn(w, roomCode)
                 /\ wsConnections' = wsAdd(wsConnections, roomCode, w)
     /\ delivered'.code # "" =>
          \A w \in Sockets :
            /\ delivered'.to[w] = 1 => sockets[w].readyState = "OPEN"
            /\ (Registered(w, delivered'.code) /\ sockets[w].readyState # "OPEN")
                 => RegisteredIn(wsConnections', w, delivered'.code)]_vars

\* a broadcast to room A reached an open connection and skipped a member
\* of A that is no longer open, which stays in the set
C24_Witness ==
  /\ delivered.code = "A"
  /\ delivered.type = "vote-cast"
  /\ \E w \in Sockets : delivered.to[w] = 1
  /\ \E w \in Sockets : /\ Registered(w, "A")
                        /\ sockets[w].readyState = "CLOSING"
                        /\ delivered.to[w] = 0

\* C25: whatever the order of a connection's shutdown and close event and a
\* broadcast to its room, ws.send is never called on a connection that is
\* not open (the call that would raise), a connection whose close handler
\* has run receives nothing, and the open connections of the room all
\* receive the event
C25_DisconnectSafe ==
  [][delivered'.code # "" =>
       \A w \in Sockets :
         /\ sockets'[w].readyState \in {"CLOSING", "CLOSED"} => delivered'.to[w] = 0
         /\ (sockets'[w].readyState = "OPEN" /\ RegisteredIn(wsConnections', w, delivered'.code))
              => delivered'.to[w] = 1]_vars

\* a broadcast to room A ran between the shutdown of one member and its
\* close event, after another member was unregistered, and reached the
\* member that is still open
C25_Witness ==
  /\ delivered.code = "A"
  /\ \E w \in Sockets : sockets[w].readyState = "CLOSING" /\ Registered(w, "A")
  /\ \E w \in Sockets : /\ sockets[w].readyState = "CLOSED"
                        /\ sockets[w].currentRoomCode = "A"
  /\ \E w \in Sockets : sockets[w].readyState = "OPEN" /\ delivered.to[w] = 1

\* C26: the close handler of a connection changes nothing but the registry:
\* rooms, participants and votes stay as they are and nothing is broadcast
C26_CloseOnlyUnregisters ==
  [][\A w \in Sockets :
       ClosesIn(w) =>
         /\ UNCHANGED <<rooms, roomParticipants, votes, sent>>
         /\ delivered' = NoDelivery
         /\ \A v \in Sockets \ {w} : sockets'[v] = sockets[v]]_vars

\* the close handler of a connection has run and removed it from a room
\* that another open connection is still in
C26_Witness ==
  \E w, v \in Sockets :
    /\ sockets[w].readyState = "CLOSED"
    /\ sockets[w].currentRoomCode = "A"
    /\ ~ Registered(w, "A")
    /\ Registered(v, "A")
    /\ sockets[v].readyState = "OPEN"
    /\ delivered = NoDelivery
\* C27: on the vote that completes a room, the vote event of that vote is
\* broadcast before voting-completed: whenever a step broadcasts
\* voting-completed to a room, voting-completed is the latest event of that
\* room when the step ends
C27_CompletedIsLast ==
  [][\A c \in Codes :
       sent'[c]["voting-completed"] > sent[c]["voting-completed"]
         => sent'[c]["last"] = "voting-completed"]_vars

\* the session has sent k requests and all of them have been answered
ScenarioDone(k) == ScenarioStep = k /\ handlers = EmptyBag

Alphabet ==
  {"A", "B", "C", "D", "E", "F", "G", "H", "I", "J", "K", "L", "M",
   "N", "O", "P", "Q", "R", "S", "T", "U", "V", "W", "X", "Y", "Z",
   "0", "1", "2", "3", "4", "5", "6", "7", "8", "9"}

\* C30: the code of every room that is created has exactly 8 characters,
\* each of them one of A-Z and 0-9
C30_CodeFormat ==
  \A r \in 1..Len(rooms) :
    /\ Len(rooms[r].code) = 8
    /\ \A j \in 1..Len(rooms[r].code) : rooms[r].code[j] \in Alphabet

\* a room was created whose code holds the first, a middle and the last
\* character of the alphabet
C30_Witness ==
  /\ Len(rooms) = 1
  /\ res = [kind |-> "create", status |-> 200]
  /\ {"A", "S", "9"} \subseteq {rooms[1].code[j] : j \in 1..Len(rooms[1].code)}

\* C31: when the two participants of a voting room each send one vote per
\* recommendation, the vote requests overlapping in any way, the room
\* eventually is completed and voting-completed has been broadcast
C31_CompletionDetected ==
  <>(/\ rooms # <<>>
     /\ rooms[1].status = "completed"
     /\ sent[rooms[1].code]["voting-completed"] >= 1)

\* the four vote requests overlapped so that two handlers read all four
\* votes, and all handlers have finished
C31_Witness ==
  /\ handlers = EmptyBag
  /\ Len(votes) = 4
  /\ rooms[1].status = "completed"
  /\ sent[rooms[1].code]["voting-completed"] = 2

\* C32: a room whose status is completed has its results stored, also when
\* storage calls fail: the status is written after the results, and not at
\* all when the write of the results throws
C32_CompletedHasResults ==
  \A i \in 1..Len(rooms) :
    rooms[i].status = "completed" => rooms[i].results # <<>>

\* the vote request just answered completed a room of two votes: the results
\* are stored and voting-completed was broadcast once
C32_Witness ==
  /\ res = [kind |-> "vote", status |-> 200]
  /\ \E i \in 1..Len(rooms) :
       /\ rooms[i].status = "completed"
       /\ rooms[i].results # <<>>
       /\ sent[rooms[i].code]["voting-completed"] = 1
       /\ VotesOfRoom(i) = 2

\* C33: when no handler is in flight, the results stored for a completed
\* room are the aggregate of the room's candidate list and of all the votes
\* recorded for the room
C33_ResultsReflectLedger ==
  handlers = EmptyBag =>
    \A i \in 1..Len(rooms) :
      rooms[i].status = "completed" =>
        rooms[i].results =
          <<calculateResults(getRoomVotes(i), rooms[i].recommendations)>>

\* C34: every vote in the ledger was cast by a participant of its room and
\* is for a movie of the room's candidate list
C34_VotesAreValid ==
  \A j \in 1..Len(votes) :
    /\ getParticipantByRoomAndUser(votes[j].roomId, votes[j].userId)
    /\ votes[j].movieId \in CandidateIds(rooms[votes[j].roomId].recommendations)

\* C35: in every state a room has a candidate list exactly when its status
\* is voting or completed, so no request finds a room that has candidates
\* and is still waiting
C35_CandidatesIffStarted ==
  \A i \in 1..Len(rooms) :
    rooms[i].recommendations # <<>> <=> rooms[i].status \in {"voting", "completed"}

\* C36: a step of a join handler whose room is voting or completed adds no
\* participant
C36_ParticipantsFrozen ==
  [][\A h \in InFlight :
       /\ h.req.kind = "join"
       /\ Ran(h)
       /\ rooms[h.loc.roomId].status \in {"voting", "completed"}
       => roomParticipants' = roomParticipants]_vars

\* the ledger holds the vote of request r
InLedger(r) ==
  \E j \in 1..Len(votes) :
    votes[j] = [roomId |-> r.roomId, userId |-> r.userId,
                movieId |-> r.movieId, score |-> r.score]

\* C37: a cast-vote handler whose vote is not in the ledger broadcasts
\* nothing, does not go on to the completion check, and does not answer
\* success
C37_InsertFailurePropagates ==
  [][\A h \in InFlight :
       h.req.kind = "vote" /\ Ran(h) /\ ~ InLedger(h.req) =>
         /\ sent' = sent
         /\ res'.status # 200
         /\ \A g \in Entered : g.req.kind # "vote"]_vars

\* C38: a start-voting request that is answered 404 (no such room) or whose
\* catalog fetch fails changes no room and broadcasts nothing, and no
\* start-voting request has changed anything before its fetch; a step that
\* broadcasts voting-started leaves the room with a candidate list and with
\* status voting
C38_FailedStartChangesNothing ==
  [][/\ (nreq' # nreq /\ (res'.kind = "start" \/ \E g \in Entered : g.req.kind = "start"))
          => UNCHANGED Effects
     /\ \A h \in InFlight :
          h.pc = "s_fetch" /\ Ran(h) => UNCHANGED Effects
     /\ \A i \in 1..Len(rooms) :
          sent'[rooms[i].code]["voting-started"] > sent[rooms[i].code]["voting-started"]
            => \E h \in InFlight :
                 /\ Ran(h)
                 /\ h.pc = "s_updateRoomStatus"
                 /\ rooms'[h.loc.roomId].status = "voting"
                 /\ rooms'[h.loc.roomId].recommendations # <<>>
                 /\ rooms'[h.loc.roomId].code = rooms[i].code]_vars

\* the catalog fetch of a start-voting request failed: the request was
\* answered 500, the room is waiting without a candidate list, and
\* voting-started was not broadcast
C38_Witness ==
  /\ res = [kind |-> "start", status |-> 500]
  /\ handlers = EmptyBag
  /\ Len(rooms) = 1
  /\ rooms[1].status = "waiting"
  /\ rooms[1].recommendations = <<>>
  /\ sent[rooms[1].code]["voting-started"] = 0

\* C39: a cast-vote handler that answers success with its vote recorded and
\* without completing a room has broadcast vote-cast, once, to the room the
\* vote is recorded in, and nothing else
C39_VoteEventToItsRoom ==
  [][\A h \in InFlight :
       /\ h.req.kind = "vote"
       /\ Ran(h)
       /\ InLedger(h.req)
       /\ res' = [kind |-> "vote", status |-> 200]
       /\ h.pc # "v_updateRoomStatus"
       => sent' = broadcastToRoom(sent, rooms[h.req.roomId].code, "vote-cast")]_vars

====
